---- MODULE Spec2Model ----
(***************************************************************************)
(* Model of lalframe/swig/SWIGTestLALFramePython.py: a straight-line       *)
(* script that imports the LAL and LALFrame bindings, exercises object     *)
(* parent tracking in a loop, releases its references, audits the native   *)
(* heap and prints checkpoints.  One action per statement of the script;   *)
(* pc is the number of the source line that runs next.                     *)
(*                                                                         *)
(* The binding layer (proxy objects, parent references, the native heap)   *)
(* is not part of the script; it is modelled from the description of the   *)
(* mechanism: a proxy read from a field holds a reference to the proxy it  *)
(* was read from, and an owning proxy frees its native block when it dies. *)
(***************************************************************************)
EXTENDS Integers, Sequences, FiniteSets

\* range(0, 7) at line 15
LoopCount == 7
\* SpecN draws the loop count from 0..MaxN
MaxN == 8
\* native allocations outstanding that the script did not make: 0..MaxForeign
MaxForeign == 1
\* SpecTwice runs lines 14-22 at most MaxRuns times
MaxRuns == 2

Modules == {"lal", "lalframe"}

Attrs == {"lalframe.globalvar", "lal.globalvar",
          "swig_lalframe_test_parent_map_struct", "s",
          "swig_lalframe_test_parent_map", "swig_lal_test_struct_const",
          "CheckMemoryLeaks"}

\* a name of the script that is not bound
NoObj == 0

VARIABLES
    installed,  \* environment: the modules that can be imported
    exposed,    \* environment: the attributes the bindings expose
    foreign,    \* environment: native allocations outstanding, not the script's
    n,          \* the loop count (7 in the source)
    pc,         \* the source line that runs next
    status,     \* "running", "failed" (uncaught exception) or "ok" (exit 0)
    out,        \* standard output, a sequence of lines
    log,        \* the lines executed so far, in order
    loaded,     \* the module names bound by the imports
    a, b, c,    \* the script's names a, b, c: a proxy id or NoObj
    i,          \* the loop variable, -1 while unbound
    rt,         \* the binding layer: proxies, native blocks, holder field
    run,        \* number of the current pass over lines 14-22
    outcomes    \* the outcomes of the earlier passes

env == <<installed, exposed, foreign, n>>
vars == <<installed, exposed, foreign, n, pc, status, out, log, loaded,
          a, b, c, i, rt, run, outcomes>>

----------------------------------------------------------------------------
(* The binding layer.                                                      *)

\* the value of lal's constant test struct, and of zeroed storage
swig_lal_test_struct_const == "const"
ZeroStruct == "zero"

Ptr(seg, blk, field) == [seg |-> seg, blk |-> blk, field |-> field]

EmptyRuntime == [objs |-> <<>>, blocks |-> <<>>, holder_s |-> ZeroStruct]

\* the parent is recorded but no reference to it is taken
NewProxy_Borrowed(st, ptr, own, parent) ==
    [st EXCEPT !.objs = Append(@, [ptr |-> ptr, own |-> own, parent |-> parent,
                                   rc |-> 1, fin |-> 0])]

\* a new proxy for ptr; a proxy read from a field keeps a reference to its parent
NewProxy(st, ptr, own, parent) ==
    LET o == [ptr |-> ptr, own |-> own, parent |-> parent, rc |-> 1, fin |-> 0]
        st1 == [st EXCEPT !.objs = Append(@, o)]
    IN  IF parent = NoObj THEN st1
        ELSE [st1 EXCEPT !.objs[parent].rc = @ + 1]

\* the id NewProxy gives the proxy it creates
NewId(st) == Len(st.objs) + 1

\* XLALCalloc of one parent-map struct: zeroed, live
Alloc(st) ==
    [st EXCEPT !.blocks = Append(@, [live |-> TRUE, frees |-> 0, s |-> ZeroStruct])]

NewBlock(st) == Len(st.blocks) + 1

Free(st, blk) ==
    [st EXCEPT !.blocks[blk].live = FALSE, !.blocks[blk].frees = @ + 1]

\* dropping one reference; the last one finalizes the proxy, which frees the
\* block it owns and drops its reference to its parent
RECURSIVE Decref(_, _)
Decref(st, id) ==
    LET o == st.objs[id]
    IN  IF o.rc > 1 THEN [st EXCEPT !.objs[id].rc = @ - 1]
        ELSE LET st1 == [st EXCEPT !.objs[id].rc = 0, !.objs[id].fin = @ + 1]
                 st2 == IF o.own THEN Free(st1, o.ptr.blk) ELSE st1
             IN  IF o.parent = NoObj THEN st2 ELSE Decref(st2, o.parent)

\* the struct a pointer to a field s designates
ReadS(st, ptr) ==
    CASE ptr.seg = "holder" -> st.holder_s
      [] ptr.seg = "const"  -> swig_lal_test_struct_const
      [] OTHER              -> st.blocks[ptr.blk].s

WriteS(st, ptr, v) ==
    IF ptr.seg = "holder" THEN [st EXCEPT !.holder_s = v]
    ELSE [st EXCEPT !.blocks[ptr.blk].s = v]

Alive(st, id) == st.objs[id].fin = 0

\* the storage behind a proxy is still there, and so is the proxy it was read from
Valid(st, id) ==
    /\ Alive(st, id)
    /\ st.objs[id].ptr.seg = "heap" => st.blocks[st.objs[id].ptr.blk].live
    /\ st.objs[id].parent # NoObj => Alive(st, st.objs[id].parent)

LiveBlocks(st) == {k \in 1..Len(st.blocks) : st.blocks[k].live}

----------------------------------------------------------------------------
(* Python name binding.                                                    *)

\* name = <new proxy>: the new reference is stored, then the old one dropped
Rebind(st, old) == IF old = NoObj THEN st ELSE Decref(st, old)

\* obj.field: a proxy for the field's storage, with obj as its parent
GetField(st, obj) ==
    NewProxy(st, Ptr(st.objs[obj].ptr.seg, st.objs[obj].ptr.blk, "s"), FALSE, obj)

\* lalframeglobalvar.swig_lalframe_test_parent_map: a view of the static holder
GetHolder(st) == NewProxy(st, Ptr("holder", 0, ""), FALSE, NoObj)

\* lalglobalvar.swig_lal_test_struct_const: a view of the static constant
GetConst(st) == NewProxy(st, Ptr("const", 0, ""), FALSE, NoObj)

----------------------------------------------------------------------------
(* The statements.                                                         *)

Text(line) ==
    CASE line = 5  -> "checking module load ..."
      [] line = 10 -> "PASSED module load"
      [] line = 13 -> "checking object parent tracking ..."
      [] line = 23 -> "PASSED object parent tracking"
      [] line = 26 -> "PASSED all tests"

\* the leak audit finds an outstanding native allocation
LeakFound == LiveBlocks(rt) # {} \/ foreign > 0

\* the statement at line cannot complete in the current state: it raises
Fault(line) ==
    CASE line = 6  -> "lal" \notin installed
      [] line = 7  -> "lalframe" \notin installed
      [] line = 8  -> "lalframe" \notin loaded \/ "lalframe.globalvar" \notin exposed
      [] line = 9  -> "lal" \notin loaded \/ "lal.globalvar" \notin exposed
      [] line = 14 -> \/ "lalframe" \notin loaded
                      \/ "swig_lalframe_test_parent_map_struct" \notin exposed
      [] line = 16 -> a = NoObj \/ "s" \notin exposed
      [] line = 17 -> \/ "lalframeglobalvar" \notin loaded
                      \/ "swig_lalframe_test_parent_map" \notin exposed
                      \/ "s" \notin exposed
      [] line = 18 -> \/ "lalglobalvar" \notin loaded
                      \/ "swig_lal_test_struct_const" \notin exposed
                      \/ "lalframeglobalvar" \notin loaded
                      \/ "swig_lalframe_test_parent_map" \notin exposed
                      \/ "s" \notin exposed
      [] line = 19 -> c = NoObj
      [] line = 20 -> b = NoObj
      [] line = 21 -> a = NoObj
      [] line = 22 -> \/ "lal" \notin loaded
                      \/ "CheckMemoryLeaks" \notin exposed
                      \/ LeakFound
      [] OTHER     -> FALSE

At(line) == pc = line /\ status = "running"

\* an uncaught exception: the interpreter stops at this statement
Raise ==
    /\ status' = "failed"
    /\ UNCHANGED <<env, pc, out, log, loaded, a, b, c, i, rt, run, outcomes>>

Step(line, next) ==
    /\ pc' = next
    /\ log' = Append(log, line)
    /\ UNCHANGED <<env, status, run, outcomes>>

PrintLine(line, next) ==
    /\ At(line)
    /\ out' = Append(out, Text(line))
    /\ Step(line, next)
    /\ UNCHANGED <<loaded, a, b, c, i, rt>>

Import(line, next, name) ==
    /\ At(line)
    /\ IF Fault(line) THEN Raise
       ELSE /\ loaded' = loaded \cup {name}
            /\ Step(line, next)
            /\ UNCHANGED <<out, a, b, c, i, rt>>

Line5 == PrintLine(5, 6)

\* import lal inside try/except ImportError: pass
Line6_Swallowed ==
    /\ At(6)
    /\ loaded' = IF Fault(6) THEN loaded ELSE loaded \cup {"lal"}
    /\ Step(6, 7)
    /\ UNCHANGED <<out, a, b, c, i, rt>>

Line6 == Import(6, 7, "lal")

Line7 == Import(7, 8, "lalframe")

Line8 == Import(8, 9, "lalframeglobalvar")

Line9 == Import(9, 10, "lalglobalvar")

\* the checkpoint print left out
Line10_NoPrint ==
    /\ At(10)
    /\ Step(10, 13)
    /\ UNCHANGED <<out, loaded, a, b, c, i, rt>>

Line10 == PrintLine(10, 13)

Line13 == PrintLine(13, 14)

\* a = lalframe.swig_lalframe_test_parent_map_struct()
Line14 ==
    /\ At(14)
    /\ IF Fault(14) THEN Raise
       ELSE LET st1 == Alloc(rt)
                st2 == NewProxy(st1, Ptr("heap", NewBlock(rt), ""), TRUE, NoObj)
            IN  /\ a' = NewId(st1)
                /\ rt' = Rebind(st2, a)
                /\ Step(14, 15)
                /\ UNCHANGED <<out, loaded, b, c, i>>

\* range(0, n + 1): one iteration too many
Line15_OffByOne ==
    /\ At(15)
    /\ IF i + 1 <= n
       THEN /\ i' = i + 1
            /\ Step(15, 16)
       ELSE /\ i' = i
            /\ Step(15, 19)
    /\ UNCHANGED <<out, loaded, a, b, c, rt>>

\* for i in range(0, n):
Line15 ==
    /\ At(15)
    /\ IF i + 1 < n
       THEN /\ i' = i + 1
            /\ Step(15, 16)
       ELSE /\ i' = i
            /\ Step(15, 19)
    /\ UNCHANGED <<out, loaded, a, b, c, rt>>

\* b = a.s
Line16 ==
    /\ At(16)
    /\ IF Fault(16) THEN Raise
       ELSE LET st1 == GetField(rt, a)
            IN  /\ b' = NewId(rt)
                /\ rt' = Rebind(st1, b)
                /\ Step(16, 17)
                /\ UNCHANGED <<out, loaded, a, c, i>>

\* c = lalframeglobalvar.swig_lalframe_test_parent_map.s
Line17 ==
    /\ At(17)
    /\ IF Fault(17) THEN Raise
       ELSE LET st1 == GetHolder(rt)
                g   == NewId(rt)
                st2 == GetField(st1, g)
                st3 == Decref(st2, g)
            IN  /\ c' = NewId(st1)
                /\ rt' = Rebind(st3, c)
                /\ Step(17, 18)
                /\ UNCHANGED <<out, loaded, a, b, i>>

\* a.s = lalglobalvar.swig_lal_test_struct_const: the wrong object is assigned
Line18_WrongTarget ==
    /\ At(18)
    /\ IF Fault(18) THEN Raise
       ELSE LET st1 == GetConst(rt)
                k   == NewId(rt)
                st2 == WriteS(st1, rt.objs[a].ptr, ReadS(st1, st1.objs[k].ptr))
            IN  /\ rt' = Decref(st2, k)
                /\ Step(18, 15)
                /\ UNCHANGED <<out, loaded, a, b, c, i>>

\* lalframeglobalvar.swig_lalframe_test_parent_map.s = lalglobalvar.swig_lal_test_struct_const
Line18 ==
    /\ At(18)
    /\ IF Fault(18) THEN Raise
       ELSE LET st1 == GetConst(rt)
                k   == NewId(rt)
                st2 == GetHolder(st1)
                g   == NewId(st1)
                st3 == WriteS(st2, Ptr("holder", 0, "s"), ReadS(st2, st2.objs[k].ptr))
            IN  /\ rt' = Decref(Decref(st3, g), k)
                /\ Step(18, 15)
                /\ UNCHANGED <<out, loaded, a, b, c, i>>

\* del c left out: c stays bound
Line19_NoRelease ==
    /\ At(19)
    /\ IF Fault(19) THEN Raise
       ELSE /\ Step(19, 20)
            /\ UNCHANGED <<out, loaded, a, b, c, i, rt>>

\* del c
Line19 ==
    /\ At(19)
    /\ IF Fault(19) THEN Raise
       ELSE /\ rt' = Decref(rt, c)
            /\ c' = NoObj
            /\ Step(19, 20)
            /\ UNCHANGED <<out, loaded, a, b, i>>

\* del b
Line20 ==
    /\ At(20)
    /\ IF Fault(20) THEN Raise
       ELSE /\ rt' = Decref(rt, b)
            /\ b' = NoObj
            /\ Step(20, 21)
            /\ UNCHANGED <<out, loaded, a, c, i>>

\* del a left out: a stays bound
Line21_NoRelease ==
    /\ At(21)
    /\ IF Fault(21) THEN Raise
       ELSE /\ Step(21, 22)
            /\ UNCHANGED <<out, loaded, a, b, c, i, rt>>

\* del a
Line21 ==
    /\ At(21)
    /\ IF Fault(21) THEN Raise
       ELSE /\ rt' = Decref(rt, a)
            /\ a' = NoObj
            /\ Step(21, 22)
            /\ UNCHANGED <<out, loaded, b, c, i>>

\* the audit's failure is not propagated
Line22_IgnoresFailure ==
    /\ At(22)
    /\ Step(22, 23)
    /\ UNCHANGED <<out, loaded, a, b, c, i, rt>>

\* lal.CheckMemoryLeaks()
Line22 ==
    /\ At(22)
    /\ IF Fault(22) THEN Raise
       ELSE /\ Step(22, 23)
            /\ UNCHANGED <<out, loaded, a, b, c, i, rt>>

Line23 == PrintLine(23, 26)

\* the last statement; the interpreter then exits with status 0
Line26 ==
    /\ At(26)
    /\ out' = Append(out, Text(26))
    /\ pc' = 27
    /\ log' = Append(log, 26)
    /\ status' = "ok"
    /\ UNCHANGED <<env, loaded, a, b, c, i, rt, run, outcomes>>

\* lines 14-22 once more in the same process, from the state the last pass left
Rerun ==
    /\ run < MaxRuns
    /\ \/ status = "failed" /\ pc \in 14..22
       \/ status = "running" /\ pc = 23
    /\ outcomes' = Append(outcomes, IF status = "failed" THEN "fail" ELSE "pass")
    /\ run' = run + 1
    /\ status' = "running"
    /\ pc' = 14
    /\ i' = -1
    /\ UNCHANGED <<env, out, log, loaded, a, b, c, rt>>

----------------------------------------------------------------------------

InitEnv ==
    /\ installed \in SUBSET Modules
    /\ exposed \in SUBSET Attrs
    /\ foreign \in 0..MaxForeign

InitRun ==
    /\ pc = 5
    /\ status = "running"
    /\ out = <<>>
    /\ log = <<>>
    /\ loaded = {}
    /\ a = NoObj /\ b = NoObj /\ c = NoObj
    /\ i = -1
    /\ rt = EmptyRuntime
    /\ run = 1
    /\ outcomes = <<>>

Init == InitEnv /\ n = LoopCount /\ InitRun

InitN == InitEnv /\ n \in 0..MaxN /\ InitRun

Next ==
    \/ Line5 \/ Line6 \/ Line7 \/ Line8 \/ Line9 \/ Line10
    \/ Line13 \/ Line14 \/ Line15 \/ Line16 \/ Line17 \/ Line18
    \/ Line19 \/ Line20 \/ Line21 \/ Line22 \/ Line23 \/ Line26

NextTwice == Next \/ Rerun

Spec == Init /\ [][Next]_vars

SpecN == InitN /\ [][Next]_vars

SpecTwice == Init /\ [][NextTwice]_vars

----------------------------------------------------------------------------
(* Properties.                                                             *)

Range(q) == {q[k] : k \in 1..Len(q)}

\* nothing in the environment can make a statement fail
Healthy == installed = Modules /\ exposed = Attrs /\ foreign = 0

Halted == status # "running"

AuditPassed == 22 \in Range(log)

IsPassedLine(l) == l \in {"PASSED module load", "PASSED object parent tracking",
                          "PASSED all tests"}

\* both modules import, every attribute is there and the audit finds nothing
NoFault == installed = Modules /\ exposed = Attrs /\ ~(pc = 22 /\ LeakFound)

\* C1 as stated: when nothing fails and the loop count is 7 the run exits
\* with success and standard output holds the three PASSED lines and nothing else.
C1_Original ==
    (NoFault /\ n = 7 /\ Halted) =>
        /\ status = "ok"
        /\ out = <<"PASSED module load", "PASSED object parent tracking",
                   "PASSED all tests">>

\* C1 amended: when nothing fails and the loop count is 7 the run exits with
\* success and standard output holds exactly five lines: each of the two
\* "checking ..." announcements followed by its PASSED line, then "PASSED all
\* tests"; the PASSED lines among them are the three literal lines, in order.
C1_Output ==
    (NoFault /\ n = 7 /\ Halted) =>
        /\ status = "ok"
        /\ out = <<"checking module load ...", "PASSED module load",
                   "checking object parent tracking ...",
                   "PASSED object parent tracking", "PASSED all tests">>
        /\ SelectSeq(out, IsPassedLine) =
               <<"PASSED module load", "PASSED object parent tracking",
                 "PASSED all tests">>

C1_Witness == NoFault /\ n = 7 /\ status = "ok" /\ Len(out) = 5 /\ AuditPassed

\* the lines printed by the print statements above a line
OutBefore(line) ==
    (IF line > 5 THEN <<"checking module load ...">> ELSE <<>>)
    \o (IF line > 10 THEN <<"PASSED module load">> ELSE <<>>)
    \o (IF line > 13 THEN <<"checking object parent tracking ...">> ELSE <<>>)
    \o (IF line > 23 THEN <<"PASSED object parent tracking">> ELSE <<>>)
    \o (IF line > 26 THEN <<"PASSED all tests">> ELSE <<>>)

\* C2: the run is fail-fast.  A statement that cannot complete (an import, an
\* attribute access or assignment, the leak audit) ends the run at that
\* statement: the status becomes failed, nothing is printed or executed by the
\* failing step, no step follows a failure, and the output of a failed run holds
\* only the lines printed above the failing statement, so no PASSED line of the
\* failing check or of a later one, and never "PASSED all tests".
C2_FailFast ==
    /\ [][status = "running" /\ status' # "running" => status' = "ok" \/ Fault(pc)]_vars
    /\ [][(status = "running" /\ Fault(pc)) =>
            (status' = "failed" /\ pc' = pc /\ out' = out /\ log' = log
             /\ rt' = rt /\ loaded' = loaded)]_vars
    /\ [][status = "running"]_vars
    /\ [](status = "failed" =>
            /\ pc \notin Range(log) \/ pc \in 16..18
            /\ out = OutBefore(pc)
            /\ "PASSED all tests" \notin Range(out)
            /\ pc <= 22 => "PASSED object parent tracking" \notin Range(out)
            /\ pc <= 9 => "PASSED module load" \notin Range(out))

C2_Witness ==
    /\ status = "failed" /\ pc = 22 /\ LeakFound
    /\ out = <<"checking module load ...", "PASSED module load",
               "checking object parent tracking ...">>

\* C3 as stated: for every loop count n >= 0, in a healthy environment the
\* releases and the leak audit complete and the audit finds no leaked allocation.
C3_Original ==
    (Healthy /\ Halted) => (status = "ok" /\ AuditPassed /\ LiveBlocks(rt) = {})

\* C3 amended: for every loop count n >= 1 (7 in the source) the releases of c,
\* b and a and the leak audit complete in a healthy environment and the audit
\* finds no leaked allocation; whenever the audit is reached, whatever n, none of
\* the script's native allocations is outstanding.
C3_NoLeak ==
    /\ pc >= 22 => LiveBlocks(rt) = {}
    /\ (Healthy /\ n >= 1 /\ Halted) =>
           (status = "ok" /\ AuditPassed /\ LiveBlocks(rt) = {})

C3_Witness ==
    /\ Healthy /\ n >= 1 /\ n # 7 /\ status = "ok" /\ AuditPassed
    /\ Len(rt.blocks) = 1 /\ rt.blocks[1].frees = 1

Proxies == 1..Len(rt.objs)

\* C4: parent tracking.  In every state every name of a, b, c that is bound
\* designates a live proxy, and every live proxy read from a field has a live
\* parent and live storage behind it: no sub-object reference dangles, during
\* the loop's rebinding of b and c and during the releases of c, b and a.
C4_ParentAlive ==
    /\ \A x \in {a, b, c} \ {NoObj} : Valid(rt, x)
    /\ \A id \in Proxies : Alive(rt, id) => Valid(rt, id)
    /\ b # NoObj => rt.objs[b].parent = a
    /\ c # NoObj => rt.objs[c].parent # NoObj

\* c was rebound at least once and is kept valid by a holder view that no name
\* of the script designates; b is gone and a is still there
C4_Witness ==
    /\ pc = 20 /\ c = NoObj /\ b # NoObj /\ a # NoObj /\ i >= 1
    /\ rt.objs[a].rc = 2
    /\ \E id \in Proxies : rt.objs[id].parent \notin {NoObj, a} /\ rt.objs[id].fin = 1

\* C5: overwriting the holder's field s neither leaks nor frees twice.  No proxy
\* is finalized twice and no native block freed twice; the proxy c designates
\* stays valid across the overwrite; and when the releases are done every proxy
\* the run created has been finalized exactly once and every native block freed
\* exactly once.
C5_ReleasedOnce ==
    /\ \A id \in Proxies : rt.objs[id].fin <= 1
    /\ \A k \in 1..Len(rt.blocks) : rt.blocks[k].frees <= 1
    /\ (pc = 15 /\ i >= 0) => (c # NoObj /\ Valid(rt, c))
    /\ pc >= 22 => /\ \A id \in Proxies : rt.objs[id].fin = 1 /\ rt.objs[id].rc = 0
                   /\ \A k \in 1..Len(rt.blocks) : rt.blocks[k].frees = 1

C5_Witness ==
    /\ pc = 22 /\ i = 6 /\ rt.holder_s = swig_lal_test_struct_const
    /\ Len(rt.objs) = 36

\* C6: the reassignment is observable.  Right after line 18 the holder's field s
\* reads as lal's constant; the value c designates after line 17 is the prior
\* (zeroed) value on the first iteration and lal's constant on every later one.
C6_Observable ==
    /\ (pc = 15 /\ i >= 0) => rt.holder_s = "const"
    /\ (pc = 18 /\ i >= 1) => ReadS(rt, rt.objs[c].ptr) = "const"
    /\ (pc = 18 /\ i = 0 /\ run = 1) => ReadS(rt, rt.objs[c].ptr) = "zero"
    /\ pc < 15 => rt.holder_s = "zero"

C6_Witness == pc = 18 /\ i = 1 /\ c # NoObj /\ ReadS(rt, rt.objs[c].ptr) = "const"

\* the outcome of the current pass over lines 14-22
Outcome ==
    IF status = "failed" /\ pc \in 14..22 THEN "fail"
    ELSE IF pc >= 23 THEN "pass" ELSE "pending"

\* C7: running lines 14-22 again in the same process gives the same outcome.
\* Every pass ends as the first one did; a pass that reaches the audit reaches it
\* with none of the script's allocations outstanding; a pass that follows a
\* passed one starts with no native block live, and at most two are ever live
\* (the one a failed pass left bound and the next pass's), so nothing
\* accumulates from pass to pass; and in a healthy environment every pass passes.
C7_SameOutcome ==
    /\ \A k \in 1..Len(outcomes) : outcomes[k] = outcomes[1]
    /\ (outcomes # <<>> /\ Outcome # "pending") => Outcome = outcomes[1]
    /\ pc >= 22 => LiveBlocks(rt) = {}
    /\ Cardinality(LiveBlocks(rt)) <= 2
    /\ (pc = 14 /\ outcomes # <<>> /\ outcomes[Len(outcomes)] = "pass") =>
           LiveBlocks(rt) = {}
    /\ Healthy => Outcome # "fail" /\ "fail" \notin Range(outcomes)

\* the second pass passed, having started from the holder state the first left
C7_Witness ==
    /\ run = 2 /\ pc = 23 /\ outcomes = <<"pass">>
    /\ rt.holder_s = swig_lal_test_struct_const /\ Len(rt.blocks) = 2

\* C8: initialization order.  lal is loaded before lalframe and before either
\* global-value holder is bound, no holder is read or written before both
\* modules and both holders are loaded, and "PASSED module load" is printed only
\* after all four imports have succeeded.
C8_InitOrder ==
    /\ "lalframe" \in loaded => "lal" \in loaded
    /\ loaded \cap {"lalframeglobalvar", "lalglobalvar"} # {} =>
           {"lal", "lalframe"} \subseteq loaded
    /\ Range(log) \cap {17, 18} # {} => "lal" \in loaded
    /\ "PASSED module load" \in Range(out) =>
           loaded = {"lal", "lalframe", "lalframeglobalvar", "lalglobalvar"}

C8_Witness ==
    /\ pc = 13 /\ "PASSED module load" \in Range(out)
    /\ log = <<5, 6, 7, 8, 9, 10>>

\* C9 as stated: a is created exactly once, has been mutated by the loop's
\* reassignments when the loop is over, and c, b and a are all released when the
\* audit is invoked.
C9_Original ==
    /\ Len(rt.blocks) <= 1
    /\ pc \in 15..22 => Len(rt.blocks) = 1
    /\ pc = 19 => ReadS(rt, Ptr("heap", 1, "s")) # ZeroStruct
    /\ pc = 22 => (a = NoObj /\ b = NoObj /\ c = NoObj)

\* C9 amended: a is created exactly once and is never mutated: the loop's
\* reassignments change the LALFrame global holder's field s, a different
\* object, and a's field s keeps the value it was constructed with; c, b and a
\* are all released when the audit is invoked.
C9_Lifecycle ==
    /\ Len(rt.blocks) <= 1
    /\ pc \in 15..22 => Len(rt.blocks) = 1
    /\ a # NoObj => ReadS(rt, Ptr("heap", 1, "s")) = ZeroStruct
    /\ pc = 19 => rt.holder_s = swig_lal_test_struct_const
    /\ pc = 22 => (a = NoObj /\ b = NoObj /\ c = NoObj)

C9_Witness ==
    /\ pc = 19 /\ a # NoObj /\ i = 6
    /\ rt.holder_s # ReadS(rt, Ptr("heap", 1, "s"))

RECURSIVE Iterations(_)
Iterations(k) == IF k = 0 THEN <<>> ELSE <<15, 16, 17, 18>> \o Iterations(k - 1)

ExpectedLog ==
    <<5, 6, 7, 8, 9, 10, 13, 14>> \o Iterations(7) \o <<15, 19, 20, 21, 22, 23, 26>>

\* C10: step order.  The statements run in source order with the loop body
\* (read a.s, read the holder's s, overwrite the holder's s) exactly 7 times;
\* the audit runs once, after the last iteration and the releases of c, b and a;
\* "PASSED object parent tracking" is printed only after the audit passed.
C10_StepOrder ==
    /\ Len(log) <= Len(ExpectedLog)
    /\ log = SubSeq(ExpectedLog, 1, Len(log))
    /\ status = "ok" => log = ExpectedLog
    /\ "PASSED object parent tracking" \in Range(out) => AuditPassed
    /\ Cardinality({k \in 1..Len(log) : log[k] = 22}) <= 1

C10_Witness ==
    /\ status = "ok" /\ Len(log) = 43
    /\ Cardinality({k \in 1..Len(log) : log[k] = 18}) = 7

====
